---- MODULE Spec2Model ----
(***************************************************************************)
(* Bike Factory Management System (src/main.py): the production resource   *)
(* ledger.  The state is the four module-level ledgers INVENTORY_DATA,     *)
(* PRODUCTION_STATUS, BIKE_INVENTORY and ORDERS; the operations are the    *)
(* button handlers that change them.  Every handler runs to completion on  *)
(* the GUI thread, so each is one action.  `result` records what the last  *)
(* handler reported (the message box it showed, if any), `disk` the file   *)
(* last written by "Save Data", and `ops` counts the operations of the     *)
(* session that went through (a history variable that bounds a session).   *)
(***************************************************************************)
EXTENDS Integers, Sequences, FiniteSets, TLC

VARIABLES INVENTORY_DATA, PRODUCTION_STATUS, BIKE_INVENTORY, ORDERS, result,
          disk, ops,
          USER_DB,              \* username -> (password, role)
          MAINTENANCE_RECORDS,  \* deque of (station, date, description)
          SHIFTS, SCHEDULE,     \* lists of dicts
          session,              \* what the login dialog accepted
          completed,            \* history: the stations completed so far
          at_save,              \* history: the collections at the last save
          queue,                \* the clicks posted and not yet dispatched
          running,              \* the handlers in progress, innermost first
          assembled             \* history: the assemblies that succeeded

vars == <<INVENTORY_DATA, PRODUCTION_STATUS, BIKE_INVENTORY, ORDERS, result,
          disk, ops, USER_DB, MAINTENANCE_RECORDS, SHIFTS, SCHEDULE, session,
          completed, at_save, queue, running, assembled>>

\* The eight collections _save_data writes, in the order of its record.
collections ==
  <<USER_DB, INVENTORY_DATA, BIKE_INVENTORY, ORDERS, PRODUCTION_STATUS,
    MAINTENANCE_RECORDS, SHIFTS, SCHEDULE>>

\* The module-level collections outside the four ledgers.
office == <<USER_DB, MAINTENANCE_RECORDS, SHIFTS, SCHEDULE>>

ledgers == <<INVENTORY_DATA, PRODUCTION_STATUS, BIKE_INVENTORY, ORDERS>>

(***************************************************************************)
(* Bounds of the exploration (none of them is a constant of the program).  *)
(***************************************************************************)
\* A session performs at most this many operations that go through (a
\* refused operation changes nothing and is not counted): under Spec,
MaxOps == 3
\* under SpecOrders,
MaxOrderOps == 4
\* and under SpecIO.
MaxFileOps == 3
\* The rows of the pending-orders table a "Complete" button is tried for.
MaxRows == 3
\* A session that starts at the login dialog performs at most this many
\* operations that go through, the login included (under SpecLogin).
MaxLoginOps == 3
\* At most this many clicks wait in the event queue (under SpecLoop).
MaxQueued == 2

(***************************************************************************)
(* Static tables.  A Python dict iterates in insertion order, so a         *)
(* requirement set is the sequence of its (key, amount) items.             *)
(***************************************************************************)
Item(k, n) == [key |-> k, amount |-> n]

Models == {"Sport", "Tour", "Commute", "Electric", "Offroad"}

BIKE_TYPE_PARTS ==
  [m \in Models |->
     CASE m = "Sport" ->
            << Item("Tubular Steel", 2), Item("Wheels", 2), Item("Seats", 1),
               Item("Gears", 1), Item("Brakes", 1), Item("Lights", 1) >>
       [] m = "Tour" ->
            << Item("Tubular Steel", 3), Item("Wheels", 2), Item("Seats", 1),
               Item("Gears", 2), Item("Brakes", 2), Item("Lights", 1) >>
       [] m = "Commute" ->
            << Item("Tubular Steel", 2), Item("Wheels", 2), Item("Seats", 1),
               Item("Gears", 1), Item("Brakes", 1), Item("Lights", 1) >>
       [] m = "Electric" ->
            << Item("Tubular Steel", 2), Item("Wheels", 2), Item("Seats", 1),
               Item("Gears", 1), Item("Brakes", 1), Item("Lights", 1),
               Item("Motors", 1) >>
       [] m = "Offroad" ->
            << Item("Tubular Steel", 3), Item("Wheels", 2), Item("Seats", 1),
               Item("Gears", 2), Item("Brakes", 2), Item("Lights", 1),
               Item("Shock Absorbers", 2) >>]

Parts == {"Tubular Steel", "Wheels", "Seats", "Gears", "Brakes", "Lights",
          "Motors", "Shock Absorbers"}

InitialInventory ==
  [p \in Parts |->
     CASE p = "Tubular Steel" -> 20
       [] p = "Wheels" -> 20
       [] p = "Seats" -> 10
       [] p = "Gears" -> 15
       [] p = "Brakes" -> 15
       [] p = "Lights" -> 10
       [] p = "Motors" -> 5
       [] p = "Shock Absorbers" -> 5]

InitialBikeInventory == [m \in Models |-> 0]

Stations == {"FrameWelded", "ForkWelded", "FrontForkAssembly", "Painting",
             "PedalAddition", "WheelAddition", "ChainGear", "BrakeAddition",
             "LightAddition", "SeatInstallation"}

InitialProductionStatus == [s \in Stations |-> 0]

\* A table in which the seat installation takes a seat from the stock and
\* nothing from the station before it.
STATION_REQUIREMENTS_seat_from_stock ==
  [s \in Stations |->
     CASE s = "FrameWelded" -> << Item("Tubular Steel", 2) >>
       [] s = "ForkWelded" -> << Item("Tubular Steel", 1) >>
       [] s = "FrontForkAssembly" ->
            << Item("FrameWelded", 1), Item("ForkWelded", 1) >>
       [] s = "Painting" -> << Item("FrontForkAssembly", 1) >>
       [] s = "PedalAddition" -> << Item("Painting", 1) >>
       [] s = "WheelAddition" -> << Item("PedalAddition", 1) >>
       [] s = "ChainGear" -> << Item("WheelAddition", 1) >>
       [] s = "BrakeAddition" -> << Item("ChainGear", 1) >>
       [] s = "LightAddition" -> << Item("BrakeAddition", 1) >>
       [] s = "SeatInstallation" -> << Item("Seats", 1) >>]

\* A table in which a welded frame takes three lengths of steel.
STATION_REQUIREMENTS_heavy_frame ==
  [s \in Stations |->
     CASE s = "FrameWelded" -> << Item("Tubular Steel", 3) >>
       [] s = "ForkWelded" -> << Item("Tubular Steel", 1) >>
       [] s = "FrontForkAssembly" ->
            << Item("FrameWelded", 1), Item("ForkWelded", 1) >>
       [] s = "Painting" -> << Item("FrontForkAssembly", 1) >>
       [] s = "PedalAddition" -> << Item("Painting", 1) >>
       [] s = "WheelAddition" -> << Item("PedalAddition", 1) >>
       [] s = "ChainGear" -> << Item("WheelAddition", 1) >>
       [] s = "BrakeAddition" -> << Item("ChainGear", 1) >>
       [] s = "LightAddition" -> << Item("BrakeAddition", 1) >>
       [] s = "SeatInstallation" -> << Item("LightAddition", 1) >>]

STATION_REQUIREMENTS ==
  [s \in Stations |->
     CASE s = "FrameWelded" -> << Item("Tubular Steel", 2) >>
       [] s = "ForkWelded" -> << Item("Tubular Steel", 1) >>
       [] s = "FrontForkAssembly" ->
            << Item("FrameWelded", 1), Item("ForkWelded", 1) >>
       [] s = "Painting" -> << Item("FrontForkAssembly", 1) >>
       [] s = "PedalAddition" -> << Item("Painting", 1) >>
       [] s = "WheelAddition" -> << Item("PedalAddition", 1) >>
       [] s = "ChainGear" -> << Item("WheelAddition", 1) >>
       [] s = "BrakeAddition" -> << Item("ChainGear", 1) >>
       [] s = "LightAddition" -> << Item("BrakeAddition", 1) >>
       [] s = "SeatInstallation" -> << Item("LightAddition", 1) >>]

\* STATION_REQUIREMENTS.get(station_key, {})
StationRequirements(station_key) ==
  IF station_key \in DOMAIN STATION_REQUIREMENTS
  THEN STATION_REQUIREMENTS[station_key] ELSE << >>

\* The keys of the ten "Complete ..." buttons of the dashboard.
StationButtons == Stations

\* The text a customer-name field can hold (an opaque string).
Customers == {"Ann"}

(***************************************************************************)
(* What a handler reported.  outcome is "Success", "Ignored" (the handler  *)
(* returned without doing or showing anything), "KeyError" (an uncaught    *)
(* exception) or the title of the warning box shown; resource, required    *)
(* and available are the values formatted into the warning text.  arg is   *)
(* the station key or bike model the handler worked on, row the table row  *)
(* a "Complete" button was bound to (-1 for the other handlers).           *)
(***************************************************************************)
Report(op, arg, outcome, resource, required, available) ==
  [op |-> op, arg |-> arg, row |-> -1, outcome |-> outcome,
   resource |-> resource, required |-> required, available |-> available]

Plain(op, arg, outcome) == Report(op, arg, outcome, "", 0, 0)

NoReport == Plain("", "", "")

NoFile == [saved |-> FALSE]

Get(f, k, default) == IF k \in DOMAIN f THEN f[k] ELSE default

(***************************************************************************)
(* DashboardTab.record_station_completion                                  *)
(***************************************************************************)
\* A check loop that returns after looking at one requirement only.
station_check_one_only(inv, prod, station_key, requirements, i) ==
  IF i > Len(requirements) THEN Plain("CompleteStation", station_key, "Success")
  ELSE LET req_key == requirements[i].key
           req_amount == requirements[i].amount
       IN IF req_key \in DOMAIN inv /\ inv[req_key] < req_amount
          THEN Report("CompleteStation", station_key, "Not Enough Inventory",
                      req_key, req_amount, inv[req_key])
          ELSE IF req_key \notin DOMAIN inv /\ req_key \in DOMAIN prod
                  /\ prod[req_key] < req_amount
          THEN Report("CompleteStation", station_key, "Not Enough Components",
                      req_key, req_amount, prod[req_key])
          ELSE Plain("CompleteStation", station_key, "Success")

\* A check loop that compares with <= where the handler compares with <.
RECURSIVE station_check_strict(_, _, _, _, _)
station_check_strict(inv, prod, station_key, requirements, i) ==
  IF i > Len(requirements) THEN Plain("CompleteStation", station_key, "Success")
  ELSE LET req_key == requirements[i].key
           req_amount == requirements[i].amount
       IN IF req_key \in DOMAIN inv
          THEN IF inv[req_key] <= req_amount
               THEN Report("CompleteStation", station_key, "Not Enough Inventory",
                           req_key, req_amount, inv[req_key])
               ELSE station_check_strict(inv, prod, station_key, requirements,
                                         i + 1)
          ELSE IF req_key \in DOMAIN prod
          THEN IF prod[req_key] <= req_amount
               THEN Report("CompleteStation", station_key, "Not Enough Components",
                           req_key, req_amount, prod[req_key])
               ELSE station_check_strict(inv, prod, station_key, requirements,
                                         i + 1)
          ELSE Report("CompleteStation", station_key, "Unknown Requirement",
                      req_key, 0, 0)

\* A check loop that looks at the parts and takes the prior stations'
\* counts for granted.
RECURSIVE station_check_parts_alone(_, _, _, _, _)
station_check_parts_alone(inv, prod, station_key, requirements, i) ==
  IF i > Len(requirements) THEN Plain("CompleteStation", station_key, "Success")
  ELSE LET req_key == requirements[i].key
           req_amount == requirements[i].amount
       IN IF req_key \in DOMAIN inv /\ inv[req_key] < req_amount
          THEN Report("CompleteStation", station_key, "Not Enough Inventory",
                      req_key, req_amount, inv[req_key])
          ELSE station_check_parts_alone(inv, prod, station_key, requirements,
                                         i + 1)

\* The "Check requirements" loop from item i on: the report of the first
\* requirement that fails, or Success when the loop runs to its end.
RECURSIVE station_check(_, _, _, _, _)
station_check(inv, prod, station_key, requirements, i) ==
  IF i > Len(requirements) THEN Plain("CompleteStation", station_key, "Success")
  ELSE LET req_key == requirements[i].key
           req_amount == requirements[i].amount
       IN IF req_key \in DOMAIN inv
          THEN IF inv[req_key] < req_amount
               THEN Report("CompleteStation", station_key, "Not Enough Inventory",
                           req_key, req_amount, inv[req_key])
               ELSE station_check(inv, prod, station_key, requirements, i + 1)
          ELSE IF req_key \in DOMAIN prod
          THEN IF prod[req_key] < req_amount
               THEN Report("CompleteStation", station_key, "Not Enough Components",
                           req_key, req_amount, prod[req_key])
               ELSE station_check(inv, prod, station_key, requirements, i + 1)
          ELSE Report("CompleteStation", station_key, "Unknown Requirement",
                      req_key, 0, 0)

\* A deduct loop without the else branch: it takes parts from the
\* inventory and leaves the prior stations' counts alone.
RECURSIVE station_deduct_parts_only(_, _, _, _)
station_deduct_parts_only(inv, prod, requirements, i) ==
  IF i > Len(requirements) THEN [inv |-> inv, prod |-> prod]
  ELSE LET req_key == requirements[i].key
           req_amount == requirements[i].amount
       IN IF req_key \in DOMAIN inv
          THEN station_deduct_parts_only([inv EXCEPT ![req_key] = @ - req_amount],
                                         prod, requirements, i + 1)
          ELSE station_deduct_parts_only(inv, prod, requirements, i + 1)

\* A deduct loop that looks a requirement up in the station counts first.
RECURSIVE station_deduct_stations_first(_, _, _, _)
station_deduct_stations_first(inv, prod, requirements, i) ==
  IF i > Len(requirements) THEN [inv |-> inv, prod |-> prod]
  ELSE LET req_key == requirements[i].key
           req_amount == requirements[i].amount
       IN IF req_key \in DOMAIN prod
          THEN station_deduct_stations_first(
                 inv, [prod EXCEPT ![req_key] = @ - req_amount], requirements,
                 i + 1)
          ELSE station_deduct_stations_first(
                 [inv EXCEPT ![req_key] = @ - req_amount], prod, requirements,
                 i + 1)

\* The "Deduct them" loop from item i on.
RECURSIVE station_deduct(_, _, _, _)
station_deduct(inv, prod, requirements, i) ==
  IF i > Len(requirements) THEN [inv |-> inv, prod |-> prod]
  ELSE LET req_key == requirements[i].key
           req_amount == requirements[i].amount
       IN IF req_key \in DOMAIN inv
          THEN station_deduct([inv EXCEPT ![req_key] = @ - req_amount], prod,
                              requirements, i + 1)
          ELSE station_deduct(inv, [prod EXCEPT ![req_key] = @ - req_amount],
                              requirements, i + 1)

\* A handler with one loop, which deducts each requirement as soon as it
\* has checked it.
RECURSIVE check_and_deduct(_, _, _, _, _)
check_and_deduct(inv, prod, station_key, requirements, i) ==
  IF i > Len(requirements)
  THEN [inv |-> inv, prod |-> [prod EXCEPT ![station_key] = @ + 1],
        result |-> Plain("CompleteStation", station_key, "Success")]
  ELSE LET one == station_check(inv, prod, station_key,
                                SubSeq(requirements, i, i), 1)
           paid == station_deduct(inv, prod, SubSeq(requirements, i, i), 1)
       IN IF one.outcome # "Success"
          THEN [inv |-> inv, prod |-> prod, result |-> one]
          ELSE check_and_deduct(paid.inv, paid.prod, station_key, requirements,
                                i + 1)

record_station_completion_one_loop(inv, prod, station_key) ==
  check_and_deduct(inv, prod, station_key, StationRequirements(station_key), 1)

\* The whole handler: the ledgers it leaves and what it reported.
record_station_completion(inv, prod, station_key) ==
  LET requirements == StationRequirements(station_key)
      checked == station_check(inv, prod, station_key, requirements, 1)
      deducted == station_deduct(inv, prod, requirements, 1)
  IN IF checked.outcome # "Success"
     THEN [inv |-> inv, prod |-> prod, result |-> checked]
     ELSE IF station_key \in DOMAIN deducted.prod
     THEN [inv |-> deducted.inv,
           prod |-> [deducted.prod EXCEPT ![station_key] = @ + 1],
           result |-> checked]
     ELSE \* PRODUCTION_STATUS[station_key] += 1 raises after the deductions
          [inv |-> deducted.inv, prod |-> deducted.prod,
           result |-> Plain("CompleteStation", station_key, "KeyError")]

(***************************************************************************)
(* BikeAssemblyTab.assemble_bike                                           *)
(***************************************************************************)
\* A check loop that compares with <= where the handler compares with <.
RECURSIVE assemble_check_strict(_, _, _, _)
assemble_check_strict(inv, model, recipe, i) ==
  IF i > Len(recipe) THEN Plain("Assemble", model, "Success")
  ELSE LET part == recipe[i].key
           needed == recipe[i].amount
           have == Get(inv, part, 0)
       IN IF have <= needed
          THEN Report("Assemble", model, "Not Enough Parts", part, needed, have)
          ELSE assemble_check_strict(inv, model, recipe, i + 1)

\* The "Check parts availability" loop from item i on.
RECURSIVE assemble_check(_, _, _, _)
assemble_check(inv, model, recipe, i) ==
  IF i > Len(recipe) THEN Plain("Assemble", model, "Success")
  ELSE LET part == recipe[i].key
           needed == recipe[i].amount
           have == Get(inv, part, 0)
       IN IF have < needed
          THEN Report("Assemble", model, "Not Enough Parts", part, needed, have)
          ELSE assemble_check(inv, model, recipe, i + 1)

\* A deduct loop that stops one item short of the end of the recipe.
RECURSIVE assemble_deduct_one_short(_, _, _)
assemble_deduct_one_short(inv, recipe, i) ==
  IF i >= Len(recipe) THEN inv
  ELSE assemble_deduct_one_short(
         [inv EXCEPT ![recipe[i].key] = @ - recipe[i].amount], recipe, i + 1)

\* The "Deduct the parts" loop from item i on.
RECURSIVE assemble_deduct(_, _, _)
assemble_deduct(inv, recipe, i) ==
  IF i > Len(recipe) THEN inv
  ELSE assemble_deduct([inv EXCEPT ![recipe[i].key] = @ - recipe[i].amount],
                       recipe, i + 1)

\* A handler that books two bikes for the parts of one.
assemble_bike_books_two(inv, bikes, model) ==
  LET recipe == BIKE_TYPE_PARTS[model]
      checked == assemble_check(inv, model, recipe, 1)
  IN IF checked.outcome # "Success"
     THEN [inv |-> inv, bikes |-> bikes, result |-> checked]
     ELSE [inv |-> assemble_deduct(inv, recipe, 1),
           bikes |-> [bikes EXCEPT ![model] = @ + 2],
           result |-> checked]

\* The whole handler: the ledgers it leaves and what it reported.
assemble_bike(inv, bikes, model) ==
  IF model \notin DOMAIN BIKE_TYPE_PARTS
  THEN [inv |-> inv, bikes |-> bikes, result |-> Plain("Assemble", model, "Error")]
  ELSE LET recipe == BIKE_TYPE_PARTS[model]
           checked == assemble_check(inv, model, recipe, 1)
       IN IF checked.outcome # "Success"
          THEN [inv |-> inv, bikes |-> bikes, result |-> checked]
          ELSE IF model \in DOMAIN bikes
          THEN [inv |-> assemble_deduct(inv, recipe, 1),
                bikes |-> [bikes EXCEPT ![model] = @ + 1],
                result |-> checked]
          ELSE \* BIKE_INVENTORY[model] += 1 raises after the deductions
               [inv |-> assemble_deduct(inv, recipe, 1), bikes |-> bikes,
                result |-> Plain("Assemble", model, "KeyError")]

(***************************************************************************)
(* InventoryTab.replenish_stock                                            *)
(***************************************************************************)
\* QSpinBox.setRange(1, 1000)
SpinMinimum == 1
SpinMaximum == 1000

\* A handler that writes the amount over the quantity (= for +=).
replenish_stock_overwrites(inv, comp, amount) == [inv EXCEPT ![comp] = amount]

replenish_stock(inv, comp, amount) == [inv EXCEPT ![comp] = @ + amount]

(***************************************************************************)
(* OrderEntryTab.submit_order                                              *)
(***************************************************************************)
\* The order record; the size, colour, wheel, gears, brakes, lights,
\* contact and address fields are further strings copied from the form the
\* same way as customer_name and read by no handler.
NewOrder(customer_name, bike_model) ==
  [customer_name |-> customer_name, bike_model |-> bike_model,
   status |-> "Pending"]

\* A handler that puts the new order first (ORDERS.insert(0, new_order)).
submit_order_at_front(orders, customer_name, bike_model) ==
  << NewOrder(customer_name, bike_model) >> \o orders

submit_order(orders, customer_name, bike_model) ==
  Append(orders, NewOrder(customer_name, bike_model))

(***************************************************************************)
(* PendingOrdersTab.mark_completed                                         *)
(***************************************************************************)
\* [o for o in ORDERS if o.get("status") == "Pending"], as the positions
\* in ORDERS of the orders listed (the list holds the order objects).
PendingPositions(orders) ==
  LET F[i \in 0..Len(orders)] ==
        IF i = 0 THEN << >>
        ELSE IF orders[i].status = "Pending" THEN Append(F[i - 1], i)
        ELSE F[i - 1]
  IN F[Len(orders)]

\* A handler that takes the row as an index into ORDERS instead of into the
\* list of pending orders.
mark_completed_row_of_orders(orders, bikes, row_index) ==
  LET pending_orders == PendingPositions(orders)
      at == row_index + 1
      model == orders[at].bike_model
      have == Get(bikes, model, 0)
      told(outcome, m) == [Plain("Fulfill", m, outcome) EXCEPT !.row = row_index]
  IN IF row_index < Len(pending_orders)
     THEN IF have < 1
          THEN [orders |-> orders, bikes |-> bikes,
                result |-> told("No Pre-Assembled Bikes", model)]
          ELSE [orders |-> [orders EXCEPT ![at].status = "Completed"],
                bikes |-> [bikes EXCEPT ![model] = @ - 1],
                result |-> told("Success", model)]
     ELSE [orders |-> orders, bikes |-> bikes, result |-> told("Ignored", "")]

\* A handler that completes the order and leaves the bike where it is.
mark_completed_keeps_bike(orders, bikes, row_index) ==
  LET pending_orders == PendingPositions(orders)
      at == pending_orders[row_index + 1]
      model == orders[at].bike_model
      have == Get(bikes, model, 0)
      told(outcome, m) == [Plain("Fulfill", m, outcome) EXCEPT !.row = row_index]
  IN IF row_index < Len(pending_orders)
     THEN IF have < 1
          THEN [orders |-> orders, bikes |-> bikes,
                result |-> told("No Pre-Assembled Bikes", model)]
          ELSE [orders |-> [orders EXCEPT ![at].status = "Completed"],
                bikes |-> bikes,
                result |-> told("Success", model)]
     ELSE [orders |-> orders, bikes |-> bikes, result |-> told("Ignored", "")]

\* A handler that writes the status "Complete" for "Completed".
mark_completed_misspelt(orders, bikes, row_index) ==
  LET pending_orders == PendingPositions(orders)
      at == pending_orders[row_index + 1]
      model == orders[at].bike_model
      have == Get(bikes, model, 0)
      told(outcome, m) == [Plain("Fulfill", m, outcome) EXCEPT !.row = row_index]
  IN IF row_index < Len(pending_orders)
     THEN IF have < 1
          THEN [orders |-> orders, bikes |-> bikes,
                result |-> told("No Pre-Assembled Bikes", model)]
          ELSE [orders |-> [orders EXCEPT ![at].status = "Complete"],
                bikes |-> [bikes EXCEPT ![model] = @ - 1],
                result |-> told("Success", model)]
     ELSE [orders |-> orders, bikes |-> bikes, result |-> told("Ignored", "")]

\* The whole handler for the button of table row row_index (counted from 0).
mark_completed(orders, bikes, row_index) ==
  LET pending_orders == PendingPositions(orders)
      at == pending_orders[row_index + 1]
      model == orders[at].bike_model
      have == Get(bikes, model, 0)
      told(outcome, m) == [Plain("Fulfill", m, outcome) EXCEPT !.row = row_index]
  IN IF row_index < Len(pending_orders)
     THEN IF have < 1
          THEN [orders |-> orders, bikes |-> bikes,
                result |-> told("No Pre-Assembled Bikes", model)]
          ELSE [orders |-> [orders EXCEPT ![at].status = "Completed"],
                bikes |-> [bikes EXCEPT ![model] = @ - 1],
                result |-> told("Success", model)]
     ELSE [orders |-> orders, bikes |-> bikes, result |-> told("Ignored", "")]

(***************************************************************************)
(* MainWindow._save_data and MainWindow._load_data, for the four ledgers.  *)
(***************************************************************************)
\* The record json.dump writes.
Snapshot(inv, bikes, orders, prod) ==
  [saved |-> TRUE, inventory |-> inv, bike_inventory |-> bikes,
   orders |-> orders, production |-> prod]

\* What _load_data leaves in the four ledgers for a file written by
\* _save_data (such a file holds all four keys).
LoadedLedgers(file) ==
  [inv |-> file.inventory, bikes |-> file.bike_inventory,
   orders |-> file.orders, prod |-> file.production]

(***************************************************************************)
(* The other collections of the file.  A Python tuple and a Python list    *)
(* with the same items are different values (("a", "b") != ["a", "b"]),    *)
(* and JSON has arrays only: json.dump writes both as an array and         *)
(* json.load reads an array as a list.                                     *)
(***************************************************************************)
PyTuple(items) == [kind |-> "tuple", items |-> items]
PyList(items) == [kind |-> "list", items |-> items]

InitialUsers ==
  [admin |-> PyTuple(<<"password", "Admin">>),
   worker1 |-> PyTuple(<<"w123", "ProductionWorker">>),
   manager1 |-> PyTuple(<<"m123", "InventoryManager">>),
   sales1 |-> PyTuple(<<"s123", "Sales">>)]

\* "users": {k: [v[0], v[1]] for k, v in USER_DB.items()}
users_to_save(users) ==
  [k \in DOMAIN users |-> PyList(<<users[k].items[1], users[k].items[2]>>)]

\* list(MAINTENANCE_RECORDS) as json.dump writes it and json.load reads it.
maintenance_to_save(records) ==
  [i \in 1..Len(records) |-> PyList(records[i].items)]

\* The record _save_data writes, as json.load reads it back.
data_to_save(inv, bikes, orders, prod, users, maintenance, shifts, schedule) ==
  [saved |-> TRUE,
   users |-> users_to_save(users),
   inventory |-> inv,
   bike_inventory |-> bikes,
   orders |-> orders,
   production |-> prod,
   maintenance |-> maintenance_to_save(maintenance),
   shifts |-> shifts,
   schedule |-> schedule]

\* if "users" in loaded_data: USER_DB[username] = (password, role)
LoadedUsers(file, users) ==
  IF "users" \in DOMAIN file
  THEN [k \in DOMAIN file.users |->
          PyTuple(<<file.users[k].items[1], file.users[k].items[2]>>)]
  ELSE users

\* A load that appends the records as json.load returns them.
LoadedMaintenanceAsRead(file) == Get(file, "maintenance", << >>)

\* MAINTENANCE_RECORDS.append(tuple(rec)) for each record of the file.
LoadedMaintenance(file) ==
  LET records == Get(file, "maintenance", << >>)
  IN [i \in 1..Len(records) |-> PyTuple(records[i].items)]

LoadedShifts(file) == Get(file, "shifts", << >>)

LoadedSchedule(file) == Get(file, "schedule", << >>)

\* What the login dialog holds: the texts read from its fields and the
\* role it accepted (all empty while nobody is logged in).
Account(username, password, role) ==
  [username |-> username, password |-> password, role |-> role]

NoSession == Account("", "", "")

(***************************************************************************)
(* The state machine.                                                      *)
(***************************************************************************)
\* The rows a "Complete" button can be bound to: a button keeps the row it
\* was created for (the table is rebuilt by refresh_table only, which a
\* load that raises after replacing ORDERS skips), and the handler checks
\* the row against the current list of pending orders.
Rows == 0..(MaxRows - 1)

\* The amounts tried in the replenish spin box.
RestockAmounts == {SpinMinimum}

\* The main window as it opens for the built-in admin, who is offered
\* every operation.
Init ==
  /\ INVENTORY_DATA = InitialInventory
  /\ PRODUCTION_STATUS = InitialProductionStatus
  /\ BIKE_INVENTORY = InitialBikeInventory
  /\ ORDERS = << >>
  /\ result = NoReport
  /\ disk = NoFile
  /\ ops = 0
  /\ USER_DB = InitialUsers
  /\ MAINTENANCE_RECORDS = << >>
  /\ SHIFTS = << >>
  /\ SCHEDULE = << >>
  /\ session = Account("admin", "password", "Admin")
  /\ completed = {}
  /\ at_save = << >>
  /\ queue = << >>
  /\ running = << >>
  /\ assembled = [m \in Models |-> 0]

\* A click on the "Complete <station>" button of the dashboard.
CompleteStation(station_key) ==
  LET r == record_station_completion(INVENTORY_DATA, PRODUCTION_STATUS, station_key)
  IN /\ INVENTORY_DATA' = r.inv
     /\ PRODUCTION_STATUS' = r.prod
     /\ result' = r.result
     /\ UNCHANGED <<BIKE_INVENTORY, ORDERS>>

\* An assembly that also counts the bike as a seat installation.
AssembleCountsStation(model) ==
  LET r == assemble_bike(INVENTORY_DATA, BIKE_INVENTORY, model)
  IN /\ INVENTORY_DATA' = r.inv
     /\ BIKE_INVENTORY' = r.bikes
     /\ result' = r.result
     /\ PRODUCTION_STATUS' =
          IF r.result.outcome = "Success"
          THEN [PRODUCTION_STATUS EXCEPT !["SeatInstallation"] = @ + 1]
          ELSE PRODUCTION_STATUS
     /\ UNCHANGED ORDERS

\* A click on "Assemble Bike" with the model chosen in the combo box.
Assemble(model) ==
  LET r == assemble_bike(INVENTORY_DATA, BIKE_INVENTORY, model)
  IN /\ INVENTORY_DATA' = r.inv
     /\ BIKE_INVENTORY' = r.bikes
     /\ result' = r.result
     /\ UNCHANGED <<PRODUCTION_STATUS, ORDERS>>

\* A click on the "Complete" button of a row of the pending-orders table.
Fulfill(row_index) ==
  LET r == mark_completed(ORDERS, BIKE_INVENTORY, row_index)
  IN /\ ORDERS' = r.orders
     /\ BIKE_INVENTORY' = r.bikes
     /\ result' = r.result
     /\ UNCHANGED <<INVENTORY_DATA, PRODUCTION_STATUS>>

\* A click on "Add/Replenish Stock" with a component and an amount chosen.
AddStock(comp, amount) ==
  /\ comp \in DOMAIN INVENTORY_DATA
  /\ INVENTORY_DATA' = replenish_stock(INVENTORY_DATA, comp, amount)
  /\ result' = Report("AddStock", comp, "Success", comp, amount, 0)
  /\ UNCHANGED <<PRODUCTION_STATUS, BIKE_INVENTORY, ORDERS>>

\* A click on "Submit Order" with the form filled in.
SubmitOrder(customer_name, bike_model) ==
  /\ ORDERS' = submit_order(ORDERS, customer_name, bike_model)
  /\ result' = Plain("SubmitOrder", bike_model, "Success")
  /\ UNCHANGED <<INVENTORY_DATA, PRODUCTION_STATUS, BIKE_INVENTORY>>

\* File > Save Data, with a file name chosen.
SaveData ==
  /\ disk' = data_to_save(INVENTORY_DATA, BIKE_INVENTORY, ORDERS,
                          PRODUCTION_STATUS, USER_DB, MAINTENANCE_RECORDS,
                          SHIFTS, SCHEDULE)
  /\ result' = Plain("Save", "", "Success")
  /\ UNCHANGED ledgers
  /\ UNCHANGED office

\* File > Load Data, with the saved file chosen.
LoadData ==
  /\ disk.saved
  /\ LET loaded == LoadedLedgers(disk)
     IN /\ INVENTORY_DATA' = loaded.inv
        /\ BIKE_INVENTORY' = loaded.bikes
        /\ ORDERS' = loaded.orders
        /\ PRODUCTION_STATUS' = loaded.prod
  /\ USER_DB' = LoadedUsers(disk, USER_DB)
  /\ MAINTENANCE_RECORDS' = LoadedMaintenance(disk)
  /\ SHIFTS' = LoadedShifts(disk)
  /\ SCHEDULE' = LoadedSchedule(disk)
  /\ result' = Plain("Load", "", "Success")
  /\ UNCHANGED disk

\* The last handler went through (it did not refuse, ignore or raise).
WentThrough(r) == r.outcome = "Success"

\* The history of assemblies: one more of the model when the step is the
\* return of assemble_bike (done) and the assembly went through.
Tally(done) ==
  assembled' = IF done /\ result'.op = "Assemble" /\ WentThrough(result')
               THEN [assembled EXCEPT ![result'.arg] = @ + 1]
               ELSE assembled

\* A handler taken as one step: called and returned with nothing queued.
Direct == UNCHANGED <<queue, running>> /\ Tally(TRUE)

\* The history variables: the stations completed so far, and the
\* collections as they were when "Save Data" last wrote them.
Noted ==
  /\ completed' = IF result'.op = "CompleteStation" /\ WentThrough(result')
                  THEN completed \cup {result'.arg} ELSE completed
  /\ at_save' = IF result'.op = "Save" /\ WentThrough(result')
                THEN collections ELSE at_save

\* A step of the main window outside the File menu.
Aside == UNCHANGED office /\ UNCHANGED session /\ Noted /\ Direct

\* A step of the File menu.
AsideOfFile == UNCHANGED session /\ Noted /\ Direct

\* A step of a session of at most max operations that go through.
Counted(max) ==
  /\ WentThrough(result') => ops < max
  /\ ops' = IF WentThrough(result') THEN ops + 1 ELSE ops

\* The five ledger operations, in sessions of at most MaxOps operations.
Next ==
  \/ \E station_key \in StationButtons :
        CompleteStation(station_key) /\ Counted(MaxOps) /\ UNCHANGED disk /\ Aside
  \/ \E model \in Models :
        Assemble(model) /\ Counted(MaxOps) /\ UNCHANGED disk /\ Aside
  \/ \E row_index \in Rows :
        Fulfill(row_index) /\ Counted(MaxOps) /\ UNCHANGED disk /\ Aside
  \/ \E comp \in Parts, amount \in RestockAmounts :
        AddStock(comp, amount) /\ Counted(MaxOps) /\ UNCHANGED disk /\ Aside
  \/ \E customer_name \in Customers, bike_model \in Models :
        SubmitOrder(customer_name, bike_model) /\ Counted(MaxOps) /\ UNCHANGED disk /\ Aside

Spec == Init /\ [][Next]_vars

\* The production track alone: every station button, as long as stock lasts.
NextStations ==
  \E station_key \in StationButtons :
    CompleteStation(station_key) /\ UNCHANGED <<disk, ops>> /\ Aside

SpecStations == Init /\ [][NextStations]_vars

\* The assembly track alone: every model, as long as stock lasts.
NextAssembly ==
  \E model \in Models : Assemble(model) /\ UNCHANGED <<disk, ops>> /\ Aside

SpecAssembly == Init /\ [][NextAssembly]_vars

\* The order track: orders are entered, bikes assembled and orders
\* completed, in sessions of at most MaxOrderOps operations.
NextOrders ==
  \/ \E customer_name \in Customers, bike_model \in Models :
        SubmitOrder(customer_name, bike_model) /\ Counted(MaxOrderOps)
          /\ UNCHANGED disk /\ Aside
  \/ \E model \in Models :
        Assemble(model) /\ Counted(MaxOrderOps) /\ UNCHANGED disk /\ Aside
  \/ \E row_index \in Rows :
        Fulfill(row_index) /\ Counted(MaxOrderOps) /\ UNCHANGED disk /\ Aside

SpecOrders == Init /\ [][NextOrders]_vars

\* The five operations and the File menu, in sessions of at most MaxFileOps
\* operations.
NextIO ==
  \/ \E station_key \in StationButtons :
        CompleteStation(station_key) /\ Counted(MaxFileOps) /\ UNCHANGED disk /\ Aside
  \/ \E model \in Models :
        Assemble(model) /\ Counted(MaxFileOps) /\ UNCHANGED disk /\ Aside
  \/ \E row_index \in Rows :
        Fulfill(row_index) /\ Counted(MaxFileOps) /\ UNCHANGED disk /\ Aside
  \/ \E comp \in Parts, amount \in RestockAmounts :
        AddStock(comp, amount) /\ Counted(MaxFileOps) /\ UNCHANGED disk /\ Aside
  \/ \E customer_name \in Customers, bike_model \in Models :
        SubmitOrder(customer_name, bike_model) /\ Counted(MaxFileOps)
          /\ UNCHANGED disk /\ Aside
  \/ SaveData /\ Counted(MaxFileOps) /\ AsideOfFile
  \/ LoadData /\ Counted(MaxFileOps) /\ AsideOfFile

SpecIO == Init /\ [][NextIO]_vars

(***************************************************************************)
(* Files that were not written by this session.  _load_data takes any JSON *)
(* document the user picks, and record_station_completion any key.         *)
(***************************************************************************)
\* A station key that is in neither static table.
Polishing == "Polishing"

\* The keys record_station_completion is called with.
StationKeys == Stations \cup {Polishing}

\* A file whose production counts hold a station the requirement table
\* does not know.
FileWithPolishing ==
  Snapshot(InitialInventory, InitialBikeInventory, << >>,
           (Polishing :> 0) @@ InitialProductionStatus)

\* A file whose inventory also stocks welded frames, next to one welded
\* frame and one welded fork in the production counts.
FileWithFramesInStock ==
  Snapshot(("FrameWelded" :> 2) @@ InitialInventory, InitialBikeInventory,
           << >>,
           [InitialProductionStatus EXCEPT !["FrameWelded"] = 1,
                                           !["ForkWelded"] = 1])

\* A file whose inventory has no tubular steel.
FileWithoutSteel ==
  Snapshot([p \in Parts \ {"Tubular Steel"} |-> InitialInventory[p]],
           InitialBikeInventory, << >>, InitialProductionStatus)

\* A file whose production counts have no welded forks.
FileWithoutForks ==
  Snapshot(InitialInventory, InitialBikeInventory, << >>,
           [t \in Stations \ {"ForkWelded"} |-> InitialProductionStatus[t]])

Files ==
  {FileWithPolishing, FileWithFramesInStock, FileWithoutSteel, FileWithoutForks}

\* File > Load Data, with a file from elsewhere chosen.
LoadFile(file) ==
  /\ LET loaded == LoadedLedgers(file)
     IN /\ INVENTORY_DATA' = loaded.inv
        /\ BIKE_INVENTORY' = loaded.bikes
        /\ ORDERS' = loaded.orders
        /\ PRODUCTION_STATUS' = loaded.prod
  /\ USER_DB' = LoadedUsers(file, USER_DB)
  /\ MAINTENANCE_RECORDS' = LoadedMaintenance(file)
  /\ SHIFTS' = LoadedShifts(file)
  /\ SCHEDULE' = LoadedSchedule(file)
  /\ result' = Plain("Load", "", "Success")
  /\ UNCHANGED disk

\* Station completions with any key, before and after loading a file, in
\* sessions of at most MaxFileOps operations.
NextForeign ==
  \/ \E file \in Files : LoadFile(file) /\ Counted(MaxFileOps) /\ AsideOfFile
  \/ \E station_key \in StationKeys :
        CompleteStation(station_key) /\ Counted(MaxFileOps) /\ UNCHANGED disk /\ Aside

SpecForeign == Init /\ [][NextForeign]_vars

\* A file whose bike inventory has no Sport bikes.
FileWithoutSportBikes ==
  Snapshot(InitialInventory,
           [m \in Models \ {"Sport"} |-> InitialBikeInventory[m]], << >>,
           InitialProductionStatus)

\* The files that omit a key of the production counts or of the bike
\* inventory.
FilesWithOmissions == {FileWithoutForks, FileWithoutSportBikes}

\* Station completions and assemblies before and after loading a file
\* that omits a key, in sessions of at most MaxFileOps operations.
NextOmitted ==
  \/ \E file \in FilesWithOmissions :
        LoadFile(file) /\ Counted(MaxFileOps) /\ AsideOfFile
  \/ \E station_key \in Stations :
        CompleteStation(station_key) /\ Counted(MaxFileOps)
          /\ UNCHANGED disk /\ Aside
  \/ \E model \in Models :
        Assemble(model) /\ Counted(MaxFileOps) /\ UNCHANGED disk /\ Aside

SpecOmitted == Init /\ [][NextOmitted]_vars

\* The model assembled next to the station pipeline: a Tour bike takes 3
\* Tubular Steel, as a finished pipeline unit does.
DrainModels == {"Tour"}

\* The dashboard and the assembly tab without any bound on the session:
\* every station button and the Assemble button, for as long as the user
\* goes on; no stock is added and no file is loaded.
NextDrain ==
  \/ \E station_key \in StationButtons :
        CompleteStation(station_key) /\ UNCHANGED <<disk, ops>> /\ Aside
  \/ \E model \in DrainModels :
        Assemble(model) /\ UNCHANGED <<disk, ops>> /\ Aside

\* The step is a CompleteStation, Assemble or Fulfill call that succeeds.
Succeeds ==
  result'.op \in {"CompleteStation", "Assemble", "Fulfill"}
    /\ WentThrough(result')

SpecDrain == Init /\ [][NextDrain]_vars

(***************************************************************************)
(* The order form.  The customer-name field is a free text field: it is    *)
(* empty when the tab opens and is cleared after every submission.         *)
(***************************************************************************)
FormTexts == {""} \cup Customers

\* Orders entered with any text in the name field, in sessions of at most
\* MaxOps operations.
NextForm ==
  \E customer_name \in FormTexts, bike_model \in Models :
    SubmitOrder(customer_name, bike_model) /\ Counted(MaxOps) /\ UNCHANGED disk /\ Aside

SpecForm == Init /\ [][NextForm]_vars

(***************************************************************************)
(* The stock room: replenishments of both ends of the spin box range       *)
(* between assemblies and station completions.                             *)
(***************************************************************************)
SpinAmounts == {SpinMinimum, SpinMaximum}

NextStock ==
  \/ \E comp \in Parts, amount \in SpinAmounts :
        AddStock(comp, amount) /\ Counted(MaxOps) /\ UNCHANGED disk /\ Aside
  \/ \E model \in Models :
        Assemble(model) /\ Counted(MaxOps) /\ UNCHANGED disk /\ Aside
  \/ \E station_key \in StationButtons :
        CompleteStation(station_key) /\ Counted(MaxOps) /\ UNCHANGED disk /\ Aside

SpecStock == Init /\ [][NextStock]_vars

(***************************************************************************)
(* LoginDialog and the role checks of the tabs.  The main window exists    *)
(* once the dialog has accepted; a tab creates the button of an operation  *)
(* only for the roles it lists.                                            *)
(***************************************************************************)
Roles == {"Admin", "ProductionWorker", "InventoryManager", "Sales"}

\* Texts typed into the username and password fields.
TypedUsernames == {"admin", " admin ", "worker1", "manager1", "sales1", "nobody"}
TypedPasswords == {"password", "w123", "m123", "s123", "guess"}

\* str.strip() on the typed texts.
Strip(text) == IF text = " admin " THEN "admin" ELSE text

\* if self.user_role in [...]: the roles each tab creates its button for.
StationRoles == {"Admin", "ProductionWorker"}
StockRoles == {"Admin", "InventoryManager"}
AssemblyRoles == {"Admin", "ProductionWorker"}
OrderRolesAnyone == Roles
OrderRoles == {"Admin", "Sales"}
CompletionRoles == {"Admin", "ProductionWorker"}

\* A dialog that compares the password only.
attempt_login_any_role(users, typed_username, typed_password, selected_role) ==
  LET username == Strip(typed_username)
      password == Strip(typed_password)
  IN IF username \in DOMAIN users /\ password = users[username].items[1]
     THEN [session |-> Account(typed_username, typed_password, selected_role),
           result |-> Plain("Login", username, "Success")]
     ELSE [session |-> NoSession,
           result |-> Plain("Login", username, "Login Failed")]

\* The dialog's Ok handler: the session it accepts, or the warning.
attempt_login(users, typed_username, typed_password, selected_role) ==
  LET username == Strip(typed_username)
      password == Strip(typed_password)
      stored_password == users[username].items[1]
      stored_role == users[username].items[2]
  IN IF username \in DOMAIN users
        /\ password = stored_password /\ selected_role = stored_role
     THEN [session |-> Account(typed_username, typed_password, stored_role),
           result |-> Plain("Login", username, "Success")]
     ELSE [session |-> NoSession,
           result |-> Plain("Login", username, "Login Failed")]

\* The application as main() starts it: the login dialog is open.
InitLogin ==
  /\ INVENTORY_DATA = InitialInventory
  /\ PRODUCTION_STATUS = InitialProductionStatus
  /\ BIKE_INVENTORY = InitialBikeInventory
  /\ ORDERS = << >>
  /\ result = NoReport
  /\ disk = NoFile
  /\ ops = 0
  /\ USER_DB = InitialUsers
  /\ MAINTENANCE_RECORDS = << >>
  /\ SHIFTS = << >>
  /\ SCHEDULE = << >>
  /\ session = NoSession
  /\ completed = {}
  /\ at_save = << >>
  /\ queue = << >>
  /\ running = << >>
  /\ assembled = [m \in Models |-> 0]

\* Ok in the login dialog.
AttemptLogin(typed_username, typed_password, selected_role) ==
  /\ session = NoSession
  /\ LET r == attempt_login(USER_DB, typed_username, typed_password,
                            selected_role)
     IN session' = r.session /\ result' = r.result
  /\ UNCHANGED ledgers
  /\ UNCHANGED office

\* The main window exists and its tab has created the button.
Offered(roles) == session # NoSession /\ session.role \in roles

NextLogin ==
  \/ \E typed_username \in TypedUsernames, typed_password \in TypedPasswords,
        selected_role \in Roles :
        /\ AttemptLogin(typed_username, typed_password, selected_role)
        /\ Counted(MaxLoginOps) /\ UNCHANGED disk /\ Noted /\ Direct
  \/ \E station_key \in StationButtons :
        /\ Offered(StationRoles)
        /\ CompleteStation(station_key)
        /\ Counted(MaxLoginOps) /\ UNCHANGED disk /\ Aside
  \/ \E model \in Models :
        /\ Offered(AssemblyRoles)
        /\ Assemble(model)
        /\ Counted(MaxLoginOps) /\ UNCHANGED disk /\ Aside
  \/ \E row_index \in Rows :
        /\ Offered(CompletionRoles)
        /\ Fulfill(row_index)
        /\ Counted(MaxLoginOps) /\ UNCHANGED disk /\ Aside
  \/ \E comp \in Parts, amount \in RestockAmounts :
        /\ Offered(StockRoles)
        /\ AddStock(comp, amount)
        /\ Counted(MaxLoginOps) /\ UNCHANGED disk /\ Aside
  \/ \E customer_name \in Customers, bike_model \in Models :
        /\ Offered(OrderRoles)
        /\ SubmitOrder(customer_name, bike_model)
        /\ Counted(MaxLoginOps) /\ UNCHANGED disk /\ Aside

SpecLogin == InitLogin /\ [][NextLogin]_vars

(***************************************************************************)
(* The tabs that keep the other collections: maintenance records, the      *)
(* schedule, shifts and users.  Dates are the texts of the date editors.   *)
(***************************************************************************)
DateTexts == {"01/11/2026 09:00"}
MaintenanceStations == {"Painting"}
Descriptions == {"oiled"}
Employees == {"Bo"}
NewUsernames == {"", "admin", "temp1"}
\* The station buttons pressed in the sessions that save and load: one
\* that is ready from the start and one that is not.
TripStations == {"FrameWelded", "FrontForkAssembly"}

\* MaintenanceTab.add_record
add_record(records, station, date_str, desc) ==
  Append(records, PyTuple(<<station, date_str, desc>>))

\* ProductionScheduleTab.add_schedule_task
add_schedule_task(schedule, dt_str, task_str, notes_str) ==
  Append(schedule, [datetime |-> dt_str, task |-> task_str, notes |-> notes_str])

\* ShiftManagementTab.add_shift
add_shift(shifts, emp, start_str, end_str, role) ==
  Append(shifts, [employee |-> emp, start |-> start_str, end |-> end_str,
                  role |-> role])

\* UserManagementTab.create_user
create_user(users, uname, pwd, role) ==
  IF uname = ""
  THEN [users |-> users, result |-> Plain("CreateUser", uname, "Input Error")]
  ELSE IF uname \in DOMAIN users
  THEN [users |-> users, result |-> Plain("CreateUser", uname, "Duplicate User")]
  ELSE [users |-> [k \in DOMAIN users \cup {uname} |->
                     IF k = uname THEN PyTuple(<<pwd, role>>) ELSE users[k]],
        result |-> Plain("CreateUser", uname, "Success")]

\* UserManagementTab.delete_user, with the question answered yes or no.
delete_user(users, uname, yes) ==
  IF uname \notin DOMAIN users
  THEN [users |-> users, result |-> Plain("DeleteUser", uname, "User Not Found")]
  ELSE IF uname = "admin"
  THEN [users |-> users, result |-> Plain("DeleteUser", uname, "Cannot Delete")]
  ELSE IF yes
  THEN [users |-> [k \in DOMAIN users \ {uname} |-> users[k]],
        result |-> Plain("DeleteUser", uname, "Success")]
  ELSE [users |-> users, result |-> Plain("DeleteUser", uname, "Ignored")]

AddRecord(station, date_str, desc) ==
  /\ MAINTENANCE_RECORDS' = add_record(MAINTENANCE_RECORDS, station, date_str, desc)
  /\ result' = Plain("AddRecord", station, "Success")
  /\ UNCHANGED <<USER_DB, SHIFTS, SCHEDULE>>

AddScheduleTask(dt_str, task_str, notes_str) ==
  /\ SCHEDULE' = add_schedule_task(SCHEDULE, dt_str, task_str, notes_str)
  /\ result' = Plain("AddScheduleTask", task_str, "Success")
  /\ UNCHANGED <<USER_DB, MAINTENANCE_RECORDS, SHIFTS>>

AddShift(emp, start_str, end_str, role) ==
  /\ SHIFTS' = add_shift(SHIFTS, emp, start_str, end_str, role)
  /\ result' = Plain("AddShift", emp, "Success")
  /\ UNCHANGED <<USER_DB, MAINTENANCE_RECORDS, SCHEDULE>>

CreateUser(uname, pwd, role) ==
  /\ LET r == create_user(USER_DB, uname, pwd, role)
     IN USER_DB' = r.users /\ result' = r.result
  /\ UNCHANGED <<MAINTENANCE_RECORDS, SHIFTS, SCHEDULE>>

\* A click on the "Delete" button of a row of the user table.
DeleteUser(uname, yes) ==
  /\ uname \in DOMAIN USER_DB
  /\ LET r == delete_user(USER_DB, uname, yes)
     IN USER_DB' = r.users /\ result' = r.result
  /\ UNCHANGED <<MAINTENANCE_RECORDS, SHIFTS, SCHEDULE>>

\* A step of the tabs above: the ledgers, the file and the session stay.
AsideOfOffice ==
  UNCHANGED ledgers /\ UNCHANGED <<disk, session>> /\ Noted /\ Direct

\* Every tab and the File menu, in sessions of at most MaxFileOps
\* operations.
NextRoundTrip ==
  \/ \E station_key \in TripStations :
        CompleteStation(station_key) /\ Counted(MaxFileOps)
          /\ UNCHANGED disk /\ Aside
  \/ \E model \in Models :
        Assemble(model) /\ Counted(MaxFileOps) /\ UNCHANGED disk /\ Aside
  \/ \E row_index \in {0} :
        Fulfill(row_index) /\ Counted(MaxFileOps) /\ UNCHANGED disk /\ Aside
  \/ \E comp \in Parts, amount \in RestockAmounts :
        AddStock(comp, amount) /\ Counted(MaxFileOps) /\ UNCHANGED disk /\ Aside
  \/ \E customer_name \in Customers, bike_model \in Models :
        SubmitOrder(customer_name, bike_model) /\ Counted(MaxFileOps)
          /\ UNCHANGED disk /\ Aside
  \/ \E station \in MaintenanceStations, date_str \in DateTexts,
        desc \in Descriptions :
        AddRecord(station, date_str, desc) /\ Counted(MaxFileOps)
          /\ AsideOfOffice
  \/ \E dt_str \in DateTexts, task_str \in Descriptions :
        AddScheduleTask(dt_str, task_str, "") /\ Counted(MaxFileOps)
          /\ AsideOfOffice
  \/ \E emp \in Employees, start_str \in DateTexts, role \in {"Sales"} :
        AddShift(emp, start_str, start_str, role) /\ Counted(MaxFileOps)
          /\ AsideOfOffice
  \/ \E uname \in NewUsernames, role \in {"Sales"} :
        CreateUser(uname, "", role) /\ Counted(MaxFileOps) /\ AsideOfOffice
  \/ \E uname \in {"admin", "temp1"}, yes \in BOOLEAN :
        DeleteUser(uname, yes) /\ Counted(MaxFileOps) /\ AsideOfOffice
  \/ SaveData /\ Counted(MaxFileOps) /\ AsideOfFile
  \/ LoadData /\ Counted(MaxFileOps) /\ AsideOfFile

SpecRoundTrip == Init /\ [][NextRoundTrip]_vars

(***************************************************************************)
(* The event loop.  The callers of the handlers are the clicks of the      *)
(* buttons: a click is posted to the event queue, and app.exec() calls the *)
(* connected handler from the one GUI thread when it is back in the loop.  *)
(* Here a handler is taken statement by statement: one pass of the check   *)
(* loop, one pass of the deduct loop, the count, the message box.          *)
(***************************************************************************)
\* The buttons pressed under SpecLoop: both handlers take Tubular Steel.
LoopClicks ==
  {[op |-> "Assemble", arg |-> "Tour"],
   [op |-> "CompleteStation", arg |-> "FrameWelded"]}

\* A handler in progress: at the check loop, the deduct loop, the count
\* or a message box, at item i of its requirements.
Frame(click, at, i) == [op |-> click.op, arg |-> click.arg, at |-> at, i |-> i]

\* The dict the loops of the handler iterate over.
RequirementsOf(f) ==
  IF f.op = "Assemble" THEN BIKE_TYPE_PARTS[f.arg]
  ELSE StationRequirements(f.arg)

\* A loop that hands a click to its handler whatever else is in progress.
CanDispatchAnytime(stack) == TRUE

\* The event loop calls a handler only when it is back in the loop: no
\* handler is in progress (an open message box is modal and keeps the
\* buttons of the main window from being pressed).
CanDispatch(stack) == stack = << >>

\* The button is pressed: its click waits in the event queue.
Click(click) ==
  /\ Len(queue) < MaxQueued
  /\ queue' = Append(queue, click)
  /\ UNCHANGED <<running, result>>
  /\ UNCHANGED ledgers

\* The event loop takes the first click and enters its handler.
Dispatch ==
  /\ queue # << >>
  /\ CanDispatch(running)
  /\ queue' = Tail(queue)
  /\ running' = <<Frame(Head(queue), "check", 1)>> \o running
  /\ UNCHANGED result
  /\ UNCHANGED ledgers

\* One pass of the check loop of the innermost handler: the warning box
\* of a requirement that fails, or on to the next requirement, or to the
\* deduct loop after the last.
StepCheck ==
  /\ running # << >>
  /\ LET f == Head(running)
         requirements == RequirementsOf(f)
         one == SubSeq(requirements, f.i, f.i)
         checked == IF f.op = "Assemble"
                    THEN assemble_check(INVENTORY_DATA, f.arg, one, 1)
                    ELSE station_check(INVENTORY_DATA, PRODUCTION_STATUS,
                                       f.arg, one, 1)
     IN /\ f.at = "check"
        /\ IF checked.outcome # "Success"
           THEN /\ result' = checked
                /\ running' = <<[f EXCEPT !.at = "box"]>> \o Tail(running)
           ELSE /\ UNCHANGED result
                /\ running' =
                     <<IF f.i < Len(requirements)
                       THEN [f EXCEPT !.i = f.i + 1]
                       ELSE [f EXCEPT !.at = "deduct", !.i = 1]>>
                     \o Tail(running)
  /\ UNCHANGED queue
  /\ UNCHANGED ledgers

\* One pass of the deduct loop of the innermost handler.
StepDeduct ==
  /\ running # << >>
  /\ LET f == Head(running)
         requirements == RequirementsOf(f)
         one == SubSeq(requirements, f.i, f.i)
     IN /\ f.at = "deduct"
        /\ IF f.op = "Assemble"
           THEN /\ INVENTORY_DATA' = assemble_deduct(INVENTORY_DATA, one, 1)
                /\ UNCHANGED PRODUCTION_STATUS
           ELSE LET d == station_deduct(INVENTORY_DATA, PRODUCTION_STATUS, one, 1)
                IN INVENTORY_DATA' = d.inv /\ PRODUCTION_STATUS' = d.prod
        /\ running' =
             <<IF f.i < Len(requirements)
               THEN [f EXCEPT !.i = f.i + 1]
               ELSE [f EXCEPT !.at = "count", !.i = 1]>>
             \o Tail(running)
  /\ UNCHANGED <<queue, result, BIKE_INVENTORY, ORDERS>>

\* The count of the innermost handler: PRODUCTION_STATUS[station_key] += 1
\* and the refresh, or BIKE_INVENTORY[model] += 1 and the "Assembled" box.
StepCount ==
  /\ running # << >>
  /\ LET f == Head(running)
     IN /\ f.at = "count"
        /\ result' = Plain(f.op, f.arg, "Success")
        /\ IF f.op = "Assemble"
           THEN /\ BIKE_INVENTORY' = [BIKE_INVENTORY EXCEPT ![f.arg] = @ + 1]
                /\ running' = <<[f EXCEPT !.at = "box"]>> \o Tail(running)
                /\ UNCHANGED PRODUCTION_STATUS
           ELSE /\ PRODUCTION_STATUS' = [PRODUCTION_STATUS EXCEPT ![f.arg] = @ + 1]
                /\ running' = Tail(running)
                /\ UNCHANGED BIKE_INVENTORY
  /\ UNCHANGED <<queue, INVENTORY_DATA, ORDERS>>

\* The message box is closed and the handler returns.
Dismiss ==
  /\ running # << >>
  /\ Head(running).at = "box"
  /\ running' = Tail(running)
  /\ UNCHANGED <<queue, result>>
  /\ UNCHANGED ledgers

\* A step of the event loop: the office, the file and the session stay.
AsideOfLoop ==
  /\ UNCHANGED office /\ UNCHANGED <<disk, ops, session>> /\ Noted
  /\ Tally(running # << >> /\ Head(running).at = "count")

NextLoop ==
  \/ \E click \in LoopClicks : Click(click) /\ AsideOfLoop
  \/ Dispatch /\ AsideOfLoop
  \/ StepCheck /\ AsideOfLoop
  \/ StepDeduct /\ AsideOfLoop
  \/ StepCount /\ AsideOfLoop
  \/ Dismiss /\ AsideOfLoop

SpecLoop == Init /\ [][NextLoop]_vars

(***************************************************************************)
(* Claims.                                                                 *)
(***************************************************************************)
\* The handler reported an error: it showed a warning or raised.
Refused(r) == r.outcome \notin {"", "Success", "Ignored"}

StationDone(r, s) == r.op = "CompleteStation" /\ r.arg = s /\ WentThrough(r)

\* C1: in every state reached through CompleteStation, Assemble, Fulfill,
\* AddStock and SubmitOrder, every part quantity, every station
\* completed-count and every finished-bike quantity is >= 0.
C1_QuantitiesNonNegative ==
  /\ \A p \in DOMAIN INVENTORY_DATA : INVENTORY_DATA[p] >= 0
  /\ \A s \in DOMAIN PRODUCTION_STATUS : PRODUCTION_STATUS[s] >= 0
  /\ \A m \in DOMAIN BIKE_INVENTORY : BIKE_INVENTORY[m] >= 0

\* C1's case: a completion has just taken the last welded frame and the
\* last welded fork, bringing both counts to exactly 0.
C1_Witness ==
  /\ StationDone(result, "FrontForkAssembly")
  /\ PRODUCTION_STATUS["FrameWelded"] = 0
  /\ PRODUCTION_STATUS["ForkWelded"] = 0
  /\ PRODUCTION_STATUS["FrontForkAssembly"] = 1

\* C2: whenever CompleteStation, Assemble or Fulfill ends in an error, the
\* four ledgers after the call equal the ledgers before it; in particular
\* a station whose first requirement is met and whose second is not
\* deducts nothing from the first.
C2_ErrorLeavesLedgersUnchanged ==
  [][(result'.op \in {"CompleteStation", "Assemble", "Fulfill"}
        /\ ~WentThrough(result'))
     => UNCHANGED ledgers]_vars

\* C2's case: Front Fork Assembly was refused for want of a welded fork
\* while a welded frame, its first requirement, is there and still there.
C2_Witness ==
  /\ result.op = "CompleteStation"
  /\ result.arg = "FrontForkAssembly"
  /\ result.outcome = "Not Enough Components"
  /\ result.resource = "ForkWelded"
  /\ PRODUCTION_STATUS["FrameWelded"] >= 1

\* The amount of resource k a requirement set asks for.
Needs(requirements, k) ==
  LET F[i \in 0..Len(requirements)] ==
        IF i = 0 THEN 0
        ELSE F[i - 1] + (IF requirements[i].key = k
                         THEN requirements[i].amount ELSE 0)
  IN F[Len(requirements)]

\* C3: a successful CompleteStation(s) decreases each resource of s's
\* requirement set by exactly its required amount (a part in the parts
\* ledger, a station in the completed-counts), increases s's count by
\* exactly 1 and changes no other part quantity or station count:
\* FrameWelded takes 2 Tubular Steel, ForkWelded 1, FrontForkAssembly one
\* FrameWelded and one ForkWelded.
C3_CompletionDeductsExactly ==
  [][\A s \in Stations :
       StationDone(result', s) =>
         /\ \A p \in Parts :
              INVENTORY_DATA'[p]
                = INVENTORY_DATA[p] - Needs(STATION_REQUIREMENTS[s], p)
         /\ \A t \in Stations :
              PRODUCTION_STATUS'[t]
                = PRODUCTION_STATUS[t] - Needs(STATION_REQUIREMENTS[s], t)
                    + (IF t = s THEN 1 ELSE 0)
         /\ s = "FrameWelded" =>
              INVENTORY_DATA'["Tubular Steel"] = INVENTORY_DATA["Tubular Steel"] - 2
         /\ s = "ForkWelded" =>
              INVENTORY_DATA'["Tubular Steel"] = INVENTORY_DATA["Tubular Steel"] - 1
         /\ s = "FrontForkAssembly" =>
              /\ PRODUCTION_STATUS'["FrameWelded"] = PRODUCTION_STATUS["FrameWelded"] - 1
              /\ PRODUCTION_STATUS'["ForkWelded"] = PRODUCTION_STATUS["ForkWelded"] - 1
              /\ INVENTORY_DATA' = INVENTORY_DATA]_vars

\* C3's case: after one FrameWelded and one ForkWelded (3 Tubular Steel),
\* FrontForkAssembly has gone through.
C3_Witness ==
  /\ StationDone(result, "FrontForkAssembly")
  /\ INVENTORY_DATA["Tubular Steel"] = 17
  /\ PRODUCTION_STATUS["FrameWelded"] = 0
  /\ PRODUCTION_STATUS["ForkWelded"] = 0
  /\ PRODUCTION_STATUS["FrontForkAssembly"] = 1

\* What a requirement id resolves to: the parts ledger first, the
\* station counts if it is not a part.
Resolves(k) == k \in DOMAIN INVENTORY_DATA \/ k \in DOMAIN PRODUCTION_STATUS

Available(k) ==
  IF k \in DOMAIN INVENTORY_DATA THEN INVENTORY_DATA[k] ELSE PRODUCTION_STATUS[k]

\* The requirements of s that are short in the current state.
Short(s) ==
  {i \in 1..Len(STATION_REQUIREMENTS[s]) :
     Available(STATION_REQUIREMENTS[s][i].key) < STATION_REQUIREMENTS[s][i].amount}

InsufficientResource(r) ==
  r.outcome \in {"Not Enough Inventory", "Not Enough Components"}

AssembleDone(r, m) == r.op = "Assemble" /\ r.arg = m /\ WentThrough(r)

\* The stock Scenario A expects after one Sport bike is assembled from the
\* default stock.
SportFromDefaultStock ==
  [p \in Parts |->
     CASE p = "Tubular Steel" -> 18
       [] p = "Wheels" -> 18
       [] p = "Seats" -> 9
       [] p = "Gears" -> 14
       [] p = "Brakes" -> 14
       [] p = "Lights" -> 9
       [] p = "Motors" -> 5
       [] p = "Shock Absorbers" -> 5]

\* C5: a successful Assemble(model) decreases the parts ledger by exactly
\* the recipe amount of every part of the model's recipe, increases the
\* model's finished-bike quantity by exactly 1 and changes no other part
\* and no other model; Sport from the default stock leaves Tubular Steel
\* 18, Wheels 18, Seats 9, Gears 14, Brakes 14, Lights 9 and Sport 1.
C5_AssembleDeductsRecipe ==
  [][\A m \in Models :
       AssembleDone(result', m) =>
         /\ \A p \in Parts :
              INVENTORY_DATA'[p]
                = INVENTORY_DATA[p] - Needs(BIKE_TYPE_PARTS[m], p)
         /\ DOMAIN INVENTORY_DATA' = DOMAIN INVENTORY_DATA
         /\ BIKE_INVENTORY' = [BIKE_INVENTORY EXCEPT ![m] = @ + 1]
         /\ (m = "Sport" /\ INVENTORY_DATA = InitialInventory
               /\ BIKE_INVENTORY = InitialBikeInventory) =>
              /\ INVENTORY_DATA' = SportFromDefaultStock
              /\ BIKE_INVENTORY'["Sport"] = 1]_vars

\* C5's case: Scenario A has happened.
C5_Witness ==
  /\ AssembleDone(result, "Sport")
  /\ INVENTORY_DATA = SportFromDefaultStock
  /\ BIKE_INVENTORY = [InitialBikeInventory EXCEPT !["Sport"] = 1]

\* The items of a recipe that the stock cannot cover (an unknown part
\* counts as 0).
ShortParts(recipe) ==
  {i \in 1..Len(recipe) : Get(INVENTORY_DATA, recipe[i].key, 0) < recipe[i].amount}

\* C6: Assemble(model) for a model of the catalog fails with
\* InsufficientParts exactly when some recipe part has stock < amount; the
\* error names a deficient part with its required amount and its current
\* stock, and the parts ledger and the finished bikes stay as they were;
\* with Motors = 0 and every other part sufficient, Assemble(Electric)
\* fails with InsufficientParts(Motors, 1, 0).
C6_InsufficientPartsExactlyWhenShort ==
  [][\A m \in Models :
       (result'.op = "Assemble" /\ result'.arg = m) =>
         LET recipe == BIKE_TYPE_PARTS[m]
             refused == result'.outcome = "Not Enough Parts"
         IN /\ refused <=> ShortParts(recipe) # {}
            /\ ~refused => WentThrough(result')
            /\ refused =>
                 /\ \E i \in ShortParts(recipe) :
                      /\ result'.resource = recipe[i].key
                      /\ result'.required = recipe[i].amount
                      /\ result'.available = Get(INVENTORY_DATA, recipe[i].key, 0)
                 /\ INVENTORY_DATA' = INVENTORY_DATA
                 /\ BIKE_INVENTORY' = BIKE_INVENTORY
            /\ (m = "Electric" /\ INVENTORY_DATA["Motors"] = 0
                  /\ \A i \in ShortParts(recipe) : recipe[i].key = "Motors") =>
                 /\ refused
                 /\ result'.resource = "Motors"
                 /\ result'.required = 1
                 /\ result'.available = 0]_vars

\* C6's case: Scenario B has happened, after the five motors of the
\* default stock went into five Electric bikes.
C6_Witness ==
  /\ result = Report("Assemble", "Electric", "Not Enough Parts", "Motors", 1, 0)
  /\ INVENTORY_DATA["Motors"] = 0
  /\ BIKE_INVENTORY["Electric"] = 5

\* Order reference row (counted from 0 among the Pending orders, in order
\* book order) denotes the order at position i of the order book.
Denotes(orders, row, i) ==
  /\ i \in 1..Len(orders)
  /\ orders[i].status = "Pending"
  /\ Cardinality({j \in 1..(i - 1) : orders[j].status = "Pending"}) = row

\* C7: Fulfill of a Pending order for model m fails with NoBikeAvailable(m)
\* when there is no finished bike of model m; otherwise it takes exactly
\* one bike of model m and sets the status of exactly that order to
\* Completed, leaving every other order and every other model as it was.
C7_FulfillConsumesOneBike ==
  [][\A i \in 1..Len(ORDERS) :
       (result'.op = "Fulfill" /\ Denotes(ORDERS, result'.row, i)) =>
         LET m == ORDERS[i].bike_model
         IN IF BIKE_INVENTORY[m] < 1
            THEN /\ result'.outcome = "No Pre-Assembled Bikes"
                 /\ result'.arg = m
                 /\ UNCHANGED <<BIKE_INVENTORY, ORDERS>>
            ELSE /\ WentThrough(result')
                 /\ BIKE_INVENTORY'[m] = BIKE_INVENTORY[m] - 1
                 /\ \A other \in Models \ {m} :
                      BIKE_INVENTORY'[other] = BIKE_INVENTORY[other]
                 /\ Len(ORDERS') = Len(ORDERS)
                 /\ ORDERS'[i] = [ORDERS[i] EXCEPT !.status = "Completed"]
                 /\ \A j \in 1..Len(ORDERS) \ {i} : ORDERS'[j] = ORDERS[j]]_vars

\* C7's case: Scenario D next to a second order: the Tour order has been
\* completed with the one Tour bike assembled, none is left, and the
\* other order is still Pending.
C7_Witness ==
  /\ result.op = "Fulfill" /\ WentThrough(result) /\ result.arg = "Tour"
  /\ BIKE_INVENTORY["Tour"] = 0
  /\ Len(ORDERS) = 2
  /\ \E i, j \in 1..2 :
       /\ ORDERS[i].bike_model = "Tour" /\ ORDERS[i].status = "Completed"
       /\ j # i /\ ORDERS[j].status = "Pending"

AppendOnlyStep ==
  /\ Len(ORDERS') >= Len(ORDERS)
  /\ \A i \in 1..Len(ORDERS) :
       [ORDERS'[i] EXCEPT !.status = ORDERS[i].status] = ORDERS[i]
  /\ (result'.op = "SubmitOrder" /\ WentThrough(result')) =>
       /\ Len(ORDERS') = Len(ORDERS) + 1
       /\ ORDERS'[Len(ORDERS')].status = "Pending"
  /\ ~(result'.op = "SubmitOrder" /\ WentThrough(result')) =>
       Len(ORDERS') = Len(ORDERS)

\* C9 as stated: the order book is append-only: SubmitOrder adds exactly
\* one Pending order at the end, and no operation ever removes an order,
\* reorders the orders or changes a field other than the status.
C9_AppendOnlyUnderEveryOperation == [][AppendOnlyStep]_vars

\* C9 as amended: the same for CompleteStation, Assemble, Fulfill,
\* AddStock, SubmitOrder and Save Data; Load Data replaces the whole order
\* book by the orders of the file it reads.
C9_AppendOnlyExceptLoad ==
  [][/\ result'.op # "Load" => AppendOnlyStep
     /\ result'.op = "Load" => ORDERS' = disk.orders]_vars

\* C9's case: a second order has been appended behind a different first
\* one.
C9_Witness ==
  /\ result.op = "SubmitOrder"
  /\ Len(ORDERS) = 2
  /\ ORDERS[2].bike_model = result.arg /\ ORDERS[2].status = "Pending"
  /\ ORDERS[1].bike_model # ORDERS[2].bike_model

\* C10 as stated: Fulfill with a reference that denotes no Pending order
\* fails with OrderNotFound and changes neither the finished bikes nor any
\* order.
C10_StaleReferenceIsReported ==
  [][(result'.op = "Fulfill"
        /\ ~\E i \in 1..Len(ORDERS) : Denotes(ORDERS, result'.row, i))
     => (Refused(result') /\ UNCHANGED <<BIKE_INVENTORY, ORDERS>>)]_vars

\* C11 as stated: CompleteStation for a station that has no entry in the
\* static requirement table fails (any warning or exception counts) and
\* changes no ledger.
C11_UnknownStationIsRefused ==
  [][(result'.op = "CompleteStation"
        /\ result'.arg \notin DOMAIN STATION_REQUIREMENTS)
     => (Refused(result') /\ UNCHANGED ledgers)]_vars

\* Requirement id k is found in neither ledger.
Nowhere(k) == ~Resolves(k)

\* Requirement i of reqs does not pass: its id is found nowhere, or the
\* ledger it resolves to holds less than the required amount.
DoesNotPass(reqs, i) ==
  Nowhere(reqs[i].key) \/ Available(reqs[i].key) < reqs[i].amount

\* C12 as stated: each requirement id is resolved against the parts ledger
\* first and against the station counts only if it is not a part; an id
\* present in both is checked against and deducted from the parts ledger
\* only, and an id present in neither makes the call fail with
\* UnknownResource(id) without any deduction.
C12_UnknownResourceWheneverNowhere ==
  [][\A s \in Stations :
       (result'.op = "CompleteStation" /\ result'.arg = s
          /\ \E i \in 1..Len(STATION_REQUIREMENTS[s]) :
               Nowhere(STATION_REQUIREMENTS[s][i].key))
       => /\ result'.outcome = "Unknown Requirement"
          /\ Nowhere(result'.resource)
          /\ UNCHANGED ledgers]_vars

\* C12 as amended: the requirements are taken in the order of the
\* requirement table and each id is resolved against the parts ledger
\* first.  The first requirement that does not pass ends the call without
\* any deduction: with UnknownResource(id) when its id is in neither
\* ledger, with InsufficientResource otherwise, measured against the parts
\* ledger alone when the id is in both.  When every requirement passes,
\* each is deducted from the parts ledger if its id is a part (also when
\* it is a station as well) and from the station counts otherwise.
C12_ResolutionOrder ==
  [][\A s \in Stations :
       (result'.op = "CompleteStation" /\ result'.arg = s) =>
         LET reqs == STATION_REQUIREMENTS[s]
             failing == {i \in 1..Len(reqs) : DoesNotPass(reqs, i)}
             first == CHOOSE i \in failing : \A j \in failing : i <= j
             k == reqs[first].key
         IN IF failing # {}
            THEN /\ UNCHANGED ledgers
                 /\ result'.resource = k
                 /\ result'.outcome =
                      IF Nowhere(k) THEN "Unknown Requirement"
                      ELSE IF k \in DOMAIN INVENTORY_DATA
                      THEN "Not Enough Inventory"
                      ELSE "Not Enough Components"
                 /\ ~Nowhere(k) => result'.available = Available(k)
            ELSE /\ DOMAIN INVENTORY_DATA' = DOMAIN INVENTORY_DATA
                 /\ DOMAIN PRODUCTION_STATUS' = DOMAIN PRODUCTION_STATUS
                 /\ \A p \in DOMAIN INVENTORY_DATA :
                      INVENTORY_DATA'[p] = INVENTORY_DATA[p] - Needs(reqs, p)
                 /\ \A t \in DOMAIN PRODUCTION_STATUS :
                      PRODUCTION_STATUS'[t]
                        = PRODUCTION_STATUS[t]
                            - (IF t \in DOMAIN INVENTORY_DATA
                               THEN 0 ELSE Needs(reqs, t))
                            + (IF t = s THEN 1 ELSE 0)]_vars

\* C12's case: with welded frames both in stock and in the station
\* counts, Front Fork Assembly has taken its frame from the stock (2 -> 1)
\* and left the station count of frames at 1.
C12_Witness ==
  /\ StationDone(result, "FrontForkAssembly")
  /\ "FrameWelded" \in DOMAIN INVENTORY_DATA
  /\ INVENTORY_DATA["FrameWelded"] = 1
  /\ PRODUCTION_STATUS["FrameWelded"] = 1
  /\ PRODUCTION_STATUS["ForkWelded"] = 0

\* C13 as stated: SubmitOrder with an empty required field (the customer
\* name) fails with ValidationError and appends nothing, so no step adds
\* an order with an empty customer name to the order book.
C13_EmptyNameAppendsNothing ==
  [][\A i \in (Len(ORDERS) + 1)..Len(ORDERS') :
       ORDERS'[i].customer_name # ""]_vars

C15_TracksDisjoint ==
  [][/\ result'.op \in {"Assemble", "Fulfill", "AddStock", "SubmitOrder"} =>
          PRODUCTION_STATUS' = PRODUCTION_STATUS
     /\ result'.op = "CompleteStation" => UNCHANGED <<BIKE_INVENTORY, ORDERS>>
     /\ \A i \in 1..Len(ORDERS) :
          ORDERS'[i].status # ORDERS[i].status =>
            /\ result'.op = "Fulfill"
            /\ BIKE_INVENTORY[ORDERS[i].bike_model] >= 1
            /\ BIKE_INVENTORY'[ORDERS[i].bike_model]
                 = BIKE_INVENTORY[ORDERS[i].bike_model] - 1
     /\ \A i \in 1..Len(ORDERS) :
          (result'.op = "Fulfill" /\ Denotes(ORDERS, result'.row, i)
             /\ BIKE_INVENTORY[ORDERS[i].bike_model] = 0)
          => ORDERS' = ORDERS]_vars

\* C15's case: the stations have produced something (a welded frame),
\* there is no finished bike, and the completion of the pending order has
\* just been refused.
C15_Witness ==
  /\ result.op = "Fulfill" /\ result.outcome = "No Pre-Assembled Bikes"
  /\ \E s \in Stations : PRODUCTION_STATUS[s] >= 1
  /\ \E i \in 1..Len(ORDERS) : ORDERS[i].status = "Pending"

\* C16: in a session logged in with role R a ledger operation occurs only
\* if R is permitted for it (CompleteStation, Assemble and Fulfill for
\* Admin or ProductionWorker, SubmitOrder for Admin or Sales, AddStock for
\* Admin or InventoryManager), and a session begins only for a username
\* whose stored password and stored role both match what was entered (the
\* dialog compares the username and password without the surrounding
\* white space).
C16_OperationsOnlyForPermittedRoles ==
  [][/\ result'.op \in {"CompleteStation", "Assemble", "Fulfill"} =>
          session.role \in {"Admin", "ProductionWorker"}
     /\ result'.op = "SubmitOrder" => session.role \in {"Admin", "Sales"}
     /\ result'.op = "AddStock" =>
          session.role \in {"Admin", "InventoryManager"}
     /\ result'.op \in {"CompleteStation", "Assemble", "Fulfill",
                         "SubmitOrder", "AddStock"} => session' = session
     /\ session' # session =>
          /\ session = NoSession
          /\ Strip(session'.username) \in DOMAIN USER_DB
          /\ USER_DB[Strip(session'.username)].items
               = <<Strip(session'.password), session'.role>>]_vars

\* C16's case: a Sales session has entered an order.
C16_Witness ==
  /\ session = Account("sales1", "s123", "Sales")
  /\ result.op = "SubmitOrder"
  /\ Len(ORDERS) = 1

\* The ledgers a step changes.
ChangedLedgers ==
  (IF INVENTORY_DATA' # INVENTORY_DATA THEN {"PartsLedger"} ELSE {})
    \cup (IF PRODUCTION_STATUS' # PRODUCTION_STATUS
          THEN {"StationCounts"} ELSE {})
    \cup (IF BIKE_INVENTORY' # BIKE_INVENTORY
          THEN {"FinishedBikeLedger"} ELSE {})
    \cup (IF ORDERS' # ORDERS THEN {"OrderBook"} ELSE {})

\* C18 as stated: no operation among CompleteStation, Assemble, Fulfill,
\* AddStock and SubmitOrder writes more than one of the four ledgers.
C18_AtMostOneLedger == [][Cardinality(ChangedLedgers) <= 1]_vars

\* C18 as amended: AddStock writes the parts ledger only and SubmitOrder
\* the order book only; CompleteStation writes within the parts ledger
\* and the station counts, a successful Assemble writes both the parts
\* ledger and the finished bikes, and a successful Fulfill both the
\* finished bikes and the order book; no operation writes more than two.
C18_LedgersPerOperation ==
  [][/\ result'.op = "CompleteStation" =>
          ChangedLedgers \subseteq {"PartsLedger", "StationCounts"}
     /\ result'.op = "Assemble" =>
          ChangedLedgers = IF WentThrough(result')
                           THEN {"PartsLedger", "FinishedBikeLedger"} ELSE {}
     /\ result'.op = "Fulfill" =>
          ChangedLedgers = IF WentThrough(result')
                           THEN {"FinishedBikeLedger", "OrderBook"} ELSE {}
     /\ result'.op = "AddStock" => ChangedLedgers = {"PartsLedger"}
     /\ result'.op = "SubmitOrder" => ChangedLedgers = {"OrderBook"}
     /\ StationDone(result', "FrameWelded") =>
          ChangedLedgers = {"PartsLedger", "StationCounts"}]_vars

\* C18's case: an order has been completed with the bike assembled for
\* it: the assembly wrote the parts and the bikes, the completion the
\* bikes and the order.
C18_Witness ==
  /\ result.op = "Fulfill" /\ WentThrough(result)
  /\ INVENTORY_DATA # InitialInventory
  /\ BIKE_INVENTORY = InitialBikeInventory
  /\ \E i \in 1..Len(ORDERS) : ORDERS[i].status = "Completed"

\* C19: Save followed by Load of the saved file is a round trip: whatever
\* operations are performed between the two, after the Load the users,
\* inventory, bike inventory, orders, production counts, maintenance
\* records, shifts and schedule equal the values they had at the moment
\* of the Save.
C19_SaveLoadRoundTrip ==
  [][result'.op = "Load" =>
       <<USER_DB', INVENTORY_DATA', BIKE_INVENTORY', ORDERS',
         PRODUCTION_STATUS', MAINTENANCE_RECORDS', SHIFTS', SCHEDULE'>>
         = at_save]_vars

\* C19's case: a station was completed after the Save, and the Load has
\* brought back the counts and the stock of the moment of the Save, and
\* the users as tuples.
C19_Witness ==
  /\ result.op = "Load"
  /\ completed # {}
  /\ \A k \in DOMAIN PRODUCTION_STATUS : PRODUCTION_STATUS[k] = 0
  /\ USER_DB["admin"].kind = "tuple"
  /\ collections = at_save

\* The stations whose completed-count station s requires.
Upstream(s) ==
  {STATION_REQUIREMENTS[s][i].key : i \in DOMAIN STATION_REQUIREMENTS[s]}
    \cap Stations

\* C20: in the default configuration, starting from all completed-counts
\* at zero, the first successful CompleteStation of a station comes after
\* a successful completion of every station it requires; as long as some
\* required station has never been completed, CompleteStation of the
\* downstream station fails with InsufficientResource.
C20_FirstCompletionsFollowChain ==
  [][\A s \in Stations :
       result'.op = "CompleteStation" /\ result'.arg = s =>
         /\ WentThrough(result') /\ s \notin completed
               => Upstream(s) \subseteq completed
         /\ ~(Upstream(s) \subseteq completed)
               => InsufficientResource(result')]_vars

\* C20's case: the chain has been walked to its end, the last station
\* being completed for the first and only time.
C20_Witness ==
  /\ StationDone(result, "SeatInstallation")
  /\ PRODUCTION_STATUS["SeatInstallation"] = 1
  /\ completed = Stations

\* The amount of resource p in a requirements dict, 0 when it has none.
AmountOf(requirements, p) ==
  IF \E i \in DOMAIN requirements : requirements[i].key = p
  THEN requirements[CHOOSE i \in DOMAIN requirements :
                      requirements[i].key = p].amount
  ELSE 0

\* What counts[k] transactions of every k in keys take of resource p.
RECURSIVE TakenBy(_, _, _, _)
TakenBy(keys, table, counts, p) ==
  IF keys = {} THEN 0
  ELSE LET k == CHOOSE x \in keys : TRUE
       IN counts[k] * AmountOf(table[k], p)
            + TakenBy(keys \ {k}, table, counts, p)

\* What the transactions that have succeeded take of part p (no station
\* pressed here feeds another, so a count is a number of successes).
Taken(p) ==
  TakenBy(Models, BIKE_TYPE_PARTS, BIKE_INVENTORY, p)
    + TakenBy(Stations, STATION_REQUIREMENTS, PRODUCTION_STATUS, p)

\* The handler has applied some of its writes and not yet all of them.
Partial(f) == (f.at = "deduct" /\ f.i > 1) \/ f.at = "count"

\* C17: when two callers issue conflicting transactions concurrently,
\* the read-validate-write steps of one do not interleave with those of
\* the other: at most as many succeed as the stock allows, no quantity
\* becomes negative, and no caller observes a state in which some but not
\* all deductions of a transaction have been applied.
C17_TransactionsDoNotInterleave ==
  /\ \A j, k \in DOMAIN running :
        j # k => running[j].at = "box" \/ running[k].at = "box"
  /\ \A j, k \in DOMAIN running :
        ~(running[j].at = "check" /\ Partial(running[k]))
  /\ \A p \in DOMAIN INVENTORY_DATA : INVENTORY_DATA[p] >= 0
  /\ \A s \in DOMAIN PRODUCTION_STATUS : PRODUCTION_STATUS[s] >= 0
  /\ \A p \in Parts : Taken(p) <= InitialInventory[p]
  /\ running = << >> =>
        \A p \in Parts : INVENTORY_DATA[p] = InitialInventory[p] - Taken(p)

\* C17's case: two Tour assemblies were posted with Tubular Steel for one
\* only; the first has taken its parts and the second still waits.
C17_Witness ==
  /\ queue # << >>
  /\ Head(queue) = [op |-> "Assemble", arg |-> "Tour"]
  /\ running # << >>
  /\ Head(running).op = "Assemble" /\ Head(running).arg = "Tour"
  /\ Head(running).at = "count"
  /\ INVENTORY_DATA["Tubular Steel"] = 2

\* The number of Completed orders for model m.
CompletedOrders(m) ==
  Cardinality({i \in DOMAIN ORDERS :
                 ORDERS[i].bike_model = m /\ ORDERS[i].status = "Completed"})

\* The bikes of model m accounted for: delivered or in the ledger.
Accounted(m) == CompletedOrders(m) + BIKE_INVENTORY[m]

\* C21, as stated: starting from an empty bike ledger and order book, in
\* every reachable state and for every model m, the number of Completed
\* orders for m plus the bike ledger's quantity of m equals the number of
\* successful Assemble(m) calls so far.
C21_BikesAccountedInEveryState ==
  \A m \in Models : Accounted(m) = assembled[m]

\* C21, amended: the equality holds under CompleteStation, Assemble,
\* Fulfill, AddStock, SubmitOrder and Save Data; a Load Data step puts the
\* file's bikes and orders in place of the session's.
C21_BikesAccountedExceptLoad ==
  [][/\ result'.op # "Load" =>
          \A m \in Models :
            Accounted(m)' - Accounted(m) = assembled[m]' - assembled[m]
     /\ result'.op = "Load" =>
          /\ BIKE_INVENTORY' = disk.bike_inventory
          /\ ORDERS' = disk.orders
          /\ assembled' = assembled]_vars

\* C21's case: a bike was assembled and delivered to an order.
C21_Witness ==
  \E m \in Models :
    /\ CompletedOrders(m) = 1
    /\ BIKE_INVENTORY[m] = 0
    /\ assembled[m] = 1

\* The call is a CompleteStation of a station that has requirements and
\* no completed-count, or an Assemble of a model that has a recipe and no
\* entry in the bike inventory.
OmittedCall(r) ==
  \/ /\ r.op = "CompleteStation"
     /\ r.arg \in DOMAIN STATION_REQUIREMENTS
     /\ r.arg \notin DOMAIN PRODUCTION_STATUS
  \/ /\ r.op = "Assemble"
     /\ r.arg \in DOMAIN BIKE_TYPE_PARTS
     /\ r.arg \notin DOMAIN BIKE_INVENTORY

\* C22: in a state where a station with a requirement set has no entry in
\* the completed-counts, or a model with a recipe has no entry in the bike
\* inventory, CompleteStation of that station and Assemble of that model
\* deduct nothing: the call either completes in full or leaves the parts
\* and all station counts exactly as they were.
C22_OmittedKeyDeductsNothing ==
  [][OmittedCall(result') =>
       \/ WentThrough(result')
       \/ /\ INVENTORY_DATA' = INVENTORY_DATA
          /\ PRODUCTION_STATUS' = PRODUCTION_STATUS]_vars

\* The steel in stock and in work in progress: 2 in a welded frame, 1 in
\* a welded fork, 3 in a unit at any station from the front fork assembly
\* on.
EmbodiedSteel(inv, prod) ==
  inv["Tubular Steel"] + 2 * prod["FrameWelded"] + prod["ForkWelded"]
    + 3 * (prod["FrontForkAssembly"] + prod["Painting"] + prod["PedalAddition"]
           + prod["WheelAddition"] + prod["ChainGear"] + prod["BrakeAddition"]
           + prod["LightAddition"] + prod["SeatInstallation"])

\* C23: in the default configuration every CompleteStation call,
\* successful or failed, preserves Tubular Steel + 2*FrameWelded +
\* ForkWelded + 3*(the counts of the eight later stations).
C23_StationsPreserveSteel ==
  [][result'.op = "CompleteStation" =>
       EmbodiedSteel(INVENTORY_DATA', PRODUCTION_STATUS')
         = EmbodiedSteel(INVENTORY_DATA, PRODUCTION_STATUS)]_vars

\* C23's case: steel has moved through welding and assembly into a
\* painted unit, with a frame left over.
C23_Witness ==
  /\ StationDone(result, "Painting")
  /\ PRODUCTION_STATUS["Painting"] = 1
  /\ PRODUCTION_STATUS["FrameWelded"] = 1
  /\ INVENTORY_DATA["Tubular Steel"] < InitialInventory["Tubular Steel"]

\* Every CompleteStation and every Assemble call would fail here.
Exhausted ==
  /\ \A s \in Stations :
        ~WentThrough(record_station_completion(INVENTORY_DATA,
                                               PRODUCTION_STATUS, s).result)
  /\ \A m \in Models :
        ~WentThrough(assemble_bike(INVENTORY_DATA, BIKE_INVENTORY, m).result)

====
